---- MODULE Spec2Model ----
(***************************************************************************)
(* A model of the LexKYFoodScores ingestion pipeline:                      *)
(*   download_pdf.py          change-aware acquisition of the PDF          *)
(*   run_pipeline.py          the orchestrator of the stages               *)
(*   LexFoodScoresExtract.py  page-by-page table extraction                *)
(*   transform_food_scores.py normalisation of the raw table               *)
(*   JoinScoresViolations.py  left join against the code lookup            *)
(***************************************************************************)
EXTENDS Integers, Sequences, FiniteSets, TLC

(***************************************************************************)
(* Bounds of the model.                                                    *)
(***************************************************************************)
\* a published document is DocLen bytes long; a download writes one byte per block
DocLen == 2
\* number of program invocations (downloader or pipeline) in one behaviour
MaxRuns == 2
\* the wall clock, in seconds, runs from 0 to MaxTime
MaxTime == 1
\* range of the modelled digest
DigestMod == 251

Bytes == {0, 1}

\* the sequences of exactly n / of at most n elements of S
RECURSIVE SeqsOfLen(_, _)
SeqsOfLen(S, n) ==
    IF n = 0 THEN {<<>>}
    ELSE {Append(s, x) : s \in SeqsOfLen(S, n - 1), x \in S}

SeqsUpTo(S, n) == UNION {SeqsOfLen(S, k) : k \in 0..n}

\* the versions of the document the site publishes: DocLen bytes each, no
\* version a prefix of another
Docs == UNION {SeqsOfLen({b}, DocLen) : b \in Bytes}

VARIABLES
    \* ---- download_pdf.py ----
    upstream,      \* the document the site serves now
    current,       \* the file at output_dir/<filename> (canonical name)
    hist,          \* the files output_dir/<base>_<timestamp><ext>, by timestamp
    tmp,           \* the file tempdir/temp_<filename>
    now,           \* the wall clock (seconds)
    dlPc,          \* position of download_pdf.main
    force,         \* args.force
    timestamp,     \* main's local `timestamp`
    existing_md5,  \* main's local `existing_md5`
    body,          \* the HTTP response body urlretrieve is copying
    dlTarget,      \* the path download_pdf() writes: "temp" or "current"
    outcome,       \* how the run ended
    exitCode,      \* the process's exit status
    dirBefore,     \* history: the destination directory when the run started
    runs,          \* invocations so far
    \* ---- run_pipeline.py ----
    nameHasUnderscore, \* whether the canonical file name contains '_'
    pipePc,        \* position of run_pipeline.main
    pipeDownload,  \* whether this pipeline run invoked the downloader
    stagesRun,     \* the stages this pipeline run has executed, in order
    pipeExit,      \* the pipeline's exit status
    \* ---- transform_food_scores.py ----
    rawTable,      \* the raw CSV as pd.read_csv(dtype=str) gives it
    xfPc,          \* position of transform
    xfExit,        \* the process's exit status
    cleaned,       \* the output CSV of transform
    \* ---- JoinScoresViolations.py ----
    df_scores,     \* food_scores_cleaned.csv as read
    df_codes,      \* CodeViolations.csv as read
    joinPc,        \* position of JoinScoresViolations.main
    joined,        \* joined_scores_violations.csv
    \* ---- LexFoodScoresExtract.py ----
    pdf,           \* the scores PDF: its pages, each a sequence of tables
    scrape_date,   \* extract_scores' argument
    output_csv,    \* the raw-table artifact extract_scores appends to
    exPc,          \* position of extract_scores
    first_write,   \* extract_scores' local
    total_pages,   \* extract_scores' local
    page_num,      \* the page loop's variable
    tables,        \* camelot's tables of page page_num
    table_idx,     \* the table loop's variable
    exExit,        \* the process's exit status
    exRuns,        \* invocations of extract_scores so far
    artifactAfter  \* history: scrape date and artifact at the end of each run

acqVars == <<upstream, current, hist, tmp, now, dlPc, force, timestamp,
             existing_md5, body, dlTarget, outcome, exitCode, dirBefore, runs>>
pipeVars == <<nameHasUnderscore, pipePc, pipeDownload, stagesRun, pipeExit>>
xfVars == <<rawTable, xfPc, xfExit, cleaned>>
joinVars == <<df_scores, df_codes, joinPc, joined>>
exVars == <<pdf, scrape_date, output_csv, exPc, first_write, total_pages,
            page_num, tables, table_idx, exExit, exRuns, artifactAfter>>
stageVars == <<xfVars, joinVars, exVars>>
vars == <<acqVars, pipeVars, stageVars>>

(***************************************************************************)
(* Files.                                                                  *)
(***************************************************************************)
Absent == [exists |-> FALSE, bytes |-> <<>>, readable |-> TRUE]
File(b, r) == [exists |-> TRUE, bytes |-> b, readable |-> r]

\* hashlib.md5 fed chunk by chunk: a deterministic fold of the bytes
RECURSIVE Md5Fold(_, _)
Md5Fold(h, b) ==
    IF b = <<>> THEN h
    ELSE Md5Fold((h * 3 + Head(b) + 1) % DigestMod, Tail(b))

calculate_md5(f) == Md5Fold(0, f.bytes)

(***************************************************************************)
(* download_pdf.py                                                         *)
(***************************************************************************)
DestDir == [current |-> current, hist |-> hist]

\* main, lines 142-169: find_pdf_link either exits 1 (no page, no link) or
\* gives the URL; `timestamp` is taken from the clock before anything is
\* downloaded; the branch is chosen on os.path.exists(output_path) and
\* args.force
BeginDownloader(f, linkFound) ==
    /\ dlPc \in {"idle", "done"}
    /\ runs < MaxRuns
    /\ runs' = runs + 1
    /\ force' = f
    /\ existing_md5' = 0
    /\ body' = <<>>
    /\ dirBefore' = DestDir
    /\ IF ~linkFound
         THEN /\ dlPc' = "done" /\ outcome' = "no_link" /\ exitCode' = 1
              /\ UNCHANGED <<timestamp, dlTarget>>
         ELSE /\ timestamp' = now
              /\ outcome' = "running"
              /\ exitCode' = 0
              /\ IF current.exists /\ ~f
                   THEN dlPc' = "md5_existing" /\ dlTarget' = "temp"
                   ELSE dlPc' = "download" /\ dlTarget' = "current"
    /\ UNCHANGED <<upstream, current, hist, tmp, now>>

\* python download_pdf.py [--force], run by hand
StartRun ==
    /\ pipePc \in {"idle", "done"}
    /\ \E f \in BOOLEAN, linkFound \in BOOLEAN : BeginDownloader(f, linkFound)
    /\ UNCHANGED <<pipeVars, stageVars>>

\* main, line 174: existing_md5 = calculate_md5(output_path); open() raises
\* when the file cannot be read and nothing catches it
Md5Existing ==
    /\ dlPc = "md5_existing"
    /\ IF current.readable
         THEN /\ existing_md5' = calculate_md5(current)
              /\ dlPc' = "download"
              /\ UNCHANGED <<outcome, exitCode>>
         ELSE /\ dlPc' = "done" /\ outcome' = "crash" /\ exitCode' = 1
              /\ UNCHANGED existing_md5
    /\ UNCHANGED <<upstream, current, hist, tmp, now, force, timestamp,
                   body, dlTarget, dirBefore, runs>>
    /\ UNCHANGED <<pipeVars, stageVars>>

\* the file download_pdf() is writing
Target == IF dlTarget = "temp" THEN tmp ELSE current

SetTarget(f) ==
    IF dlTarget = "temp"
      THEN tmp' = f /\ UNCHANGED current
      ELSE current' = f /\ UNCHANGED tmp

\* urlretrieve: the response is opened, then output_path is opened "wb",
\* which creates it or truncates it in place (an existing file keeps its mode)
DownloadOpen ==
    /\ dlPc = "download"
    /\ body' = upstream
    /\ SetTarget(File(<<>>, IF Target.exists THEN Target.readable ELSE TRUE))
    /\ dlPc' = "writing"
    /\ UNCHANGED <<upstream, hist, now, force, timestamp, existing_md5,
                   dlTarget, outcome, exitCode, dirBefore, runs>>
    /\ UNCHANGED <<pipeVars, stageVars>>

\* urlretrieve copies the next block of the response into output_path
DownloadBlock ==
    /\ dlPc = "writing"
    /\ Len(Target.bytes) < Len(body)
    /\ SetTarget(File(Append(Target.bytes, body[Len(Target.bytes) + 1]),
                      Target.readable))
    /\ UNCHANGED <<upstream, hist, now, dlPc, force, timestamp, existing_md5,
                   body, dlTarget, outcome, exitCode, dirBefore, runs>>
    /\ UNCHANGED <<pipeVars, stageVars>>

\* download_pdf, lines 86-91: the whole response is on disk
DownloadDone ==
    /\ dlPc = "writing"
    /\ Len(Target.bytes) = Len(body)
    /\ dlPc' = IF dlTarget = "temp" THEN "compare" ELSE "finalize"
    /\ UNCHANGED <<upstream, current, hist, tmp, now, force, timestamp,
                   existing_md5, body, dlTarget, outcome, exitCode,
                   dirBefore, runs>>
    /\ UNCHANGED <<pipeVars, stageVars>>

\* download_pdf, lines 93-95: the transfer fails (before or between blocks);
\* sys.exit(1) leaves whatever was written where it is
DownloadFail ==
    /\ \/ dlPc = "download"
       \/ dlPc = "writing" /\ Len(Target.bytes) < Len(body)
    /\ dlPc' = "done" /\ outcome' = "download_failed" /\ exitCode' = 1
    /\ UNCHANGED <<upstream, current, hist, tmp, now, force, timestamp,
                   existing_md5, body, dlTarget, dirBefore, runs>>
    /\ UNCHANGED <<pipeVars, stageVars>>

\* Compare with the digests' comparison lost: the temp file always replaces
\* the current one
Compare_AlwaysReplace ==
    /\ dlPc = "compare"
    /\ current' = tmp
    /\ tmp' = Absent
    /\ dlPc' = "finalize"
    /\ UNCHANGED <<outcome, exitCode>>
    /\ UNCHANGED <<upstream, hist, now, force, timestamp, existing_md5,
                   body, dlTarget, dirBefore, runs>>
    /\ UNCHANGED <<pipeVars, stageVars>>

\* main, lines 181-200: new_md5 = calculate_md5(temp_path); equal digests
\* remove the temp file and sys.exit(0), different ones os.replace it over
\* output_path
Compare ==
    /\ dlPc = "compare"
    /\ IF existing_md5 = calculate_md5(tmp)
         THEN /\ tmp' = Absent
              /\ dlPc' = "done" /\ outcome' = "unchanged" /\ exitCode' = 0
              /\ UNCHANGED current
         ELSE /\ current' = tmp
              /\ tmp' = Absent
              /\ dlPc' = "finalize"
              /\ UNCHANGED <<outcome, exitCode>>
    /\ UNCHANGED <<upstream, hist, now, force, timestamp, existing_md5,
                   body, dlTarget, dirBefore, runs>>
    /\ UNCHANGED <<pipeVars, stageVars>>

\* main, lines 208-230: final_md5 = calculate_md5(output_path), then
\* shutil.copy2(output_path, <base>_<timestamp><ext>)
Finalize ==
    /\ dlPc = "finalize"
    /\ IF current.readable
         THEN /\ hist' = [hist EXCEPT ![timestamp] = File(current.bytes, TRUE)]
              /\ dlPc' = "done" /\ outcome' = "changed" /\ exitCode' = 0
         ELSE /\ dlPc' = "done" /\ outcome' = "crash" /\ exitCode' = 1
              /\ UNCHANGED hist
    /\ UNCHANGED <<upstream, current, tmp, now, force, timestamp, existing_md5,
                   body, dlTarget, dirBefore, runs>>
    /\ UNCHANGED <<pipeVars, stageVars>>

\* the operator aborts the run (spec section 5: cancellation is coarse-grained)
Kill ==
    /\ dlPc \notin {"idle", "done"}
    /\ dlPc' = "done" /\ outcome' = "killed" /\ exitCode' = 1
    /\ UNCHANGED <<upstream, current, hist, tmp, now, force, timestamp,
                   existing_md5, body, dlTarget, dirBefore, runs>>
    /\ UNCHANGED <<pipeVars, stageVars>>

\* the site publishes another document (between runs)
Publish ==
    /\ dlPc \in {"idle", "done"}
    /\ \E d \in Docs : d # upstream /\ upstream' = d
    /\ UNCHANGED <<current, hist, tmp, now, dlPc, force, timestamp,
                   existing_md5, body, dlTarget, outcome, exitCode,
                   dirBefore, runs>>
    /\ UNCHANGED <<pipeVars, stageVars>>

\* a second passes
Tick ==
    /\ now < MaxTime
    /\ now' = now + 1
    /\ UNCHANGED <<upstream, current, hist, tmp, dlPc, force, timestamp,
                   existing_md5, body, dlTarget, outcome, exitCode,
                   dirBefore, runs>>
    /\ UNCHANGED <<pipeVars, stageVars>>

(***************************************************************************)
(* run_pipeline.py                                                         *)
(***************************************************************************)
NextStage(st) ==
    IF st = "extract" THEN "transform"
    ELSE IF st = "transform" THEN "join"
    ELSE "archive"

\* main, lines 72-78 and 101-105: with --download (or no --scores-pdf) the
\* downloader is run as a subprocess with its default arguments (no --force);
\* otherwise the given PDF must be a file
PipelineStart ==
    /\ pipePc \in {"idle", "done"}
    /\ stagesRun' = <<>>
    /\ UNCHANGED <<nameHasUnderscore, stageVars>>
    /\ \E dl \in BOOLEAN :
         /\ pipeDownload' = dl
         /\ IF dl
              THEN /\ \E linkFound \in BOOLEAN : BeginDownloader(FALSE, linkFound)
                   /\ pipePc' = "download"
                   /\ pipeExit' = 0
              ELSE /\ dlPc \in {"idle", "done"}
                   /\ runs < MaxRuns
                   /\ runs' = runs + 1
                   /\ \E isfile \in BOOLEAN :
                        IF isfile
                          THEN pipePc' = "extract" /\ pipeExit' = 0
                          ELSE pipePc' = "done" /\ pipeExit' = 1
                   /\ UNCHANGED <<upstream, current, hist, tmp, now, dlPc,
                                  force, timestamp, existing_md5, body,
                                  dlTarget, outcome, exitCode, dirBefore>>

\* main, lines 78-105: a non-zero return code of the downloader ends the run;
\* any zero return code goes on to pick the PDF: the first file of PDFs/ that
\* ends in .pdf and has no '_' in its name (the historical copies all have one)
PipelineAfterDownload ==
    /\ pipePc = "download"
    /\ dlPc = "done"
    /\ IF exitCode # 0
         THEN pipePc' = "done" /\ pipeExit' = 1
         ELSE IF current.exists /\ ~nameHasUnderscore
                THEN pipePc' = "extract" /\ UNCHANGED pipeExit
                ELSE pipePc' = "done" /\ pipeExit' = 1
    /\ UNCHANGED <<nameHasUnderscore, pipeDownload, stagesRun>>
    /\ UNCHANGED <<acqVars, stageVars>>

\* run_command, lines 25-39, for steps 1 to 3: the stage's script runs as a
\* subprocess; a non-zero return code ends the pipeline with status 1
RunStage ==
    /\ pipePc \in {"extract", "transform", "join"}
    /\ stagesRun' = Append(stagesRun, pipePc)
    /\ \E returncode \in {0, 1} :
         IF returncode # 0
           THEN pipePc' = "done" /\ pipeExit' = 1
           ELSE pipePc' = NextStage(pipePc) /\ UNCHANGED pipeExit
    /\ UNCHANGED <<nameHasUnderscore, pipeDownload>>
    /\ UNCHANGED <<acqVars, stageVars>>

\* main, lines 142-172: a PDF given from outside PDFs/ is moved into it unless
\* a file of that name is already there
PipelineArchive ==
    /\ pipePc = "archive"
    /\ pipePc' = "done"
    /\ pipeExit' = 0
    /\ \E sameName \in BOOLEAN, d \in Docs :
         IF ~pipeDownload /\ sameName /\ ~current.exists
           THEN current' = File(d, TRUE)
           ELSE UNCHANGED current
    /\ UNCHANGED <<nameHasUnderscore, pipeDownload, stagesRun>>
    /\ UNCHANGED <<upstream, hist, tmp, now, dlPc, force, timestamp,
                   existing_md5, body, dlTarget, outcome, exitCode,
                   dirBefore, runs>>
    /\ UNCHANGED stageVars

(***************************************************************************)
(* transform_food_scores.py                                                *)
(*                                                                         *)
(* A cell is a string, written as the sequence of its characters, or NaN   *)
(* (pd.read_csv reads an empty cell as NaN).  A data frame is a sequence   *)
(* of rows [idx |-> the row's index label, f |-> its cells].               *)
(***************************************************************************)
\* rows of the raw tables of one behaviour
MaxRows == 2

NaN == <<"NaN">>
NaT == [year |-> 0, month |-> 0, day |-> 0]

Digits == {"0", "1", "2", "3", "4", "5", "6", "7", "8", "9"}
DigitSeq == <<"0", "1", "2", "3", "4", "5", "6", "7", "8", "9">>
DigitVal(c) == (CHOOSE i \in 1..10 : DigitSeq[i] = c) - 1

\* what str.split() with no argument splits on
Whitespace == {" ", "\n", "\t"}

\* DEFAULT_HEADERS, lines 17-26
DEFAULT_HEADERS ==
    <<"Permit #", "Establishment Name", "Address", "Date",
      "Inspection Type", "Food or Retail", "Score", "Violations">>

\* re.match(r'^\d+$', s): one or more digits, then the end of the string or
\* a newline that ends the string ($ matches before a trailing newline)
ReMatchDigits(s) ==
    LET core == IF Len(s) >= 1 /\ s[Len(s)] = "\n"
                  THEN SubSeq(s, 1, Len(s) - 1)
                  ELSE s
    IN  /\ Len(core) >= 1
        /\ \A i \in 1..Len(core) : core[i] \in Digits

\* Series.str.match, line 43: NaN for a missing value, else whether it matches
StrMatch(cell) ==
    IF cell = NaN THEN "NaN"
    ELSE IF ReMatchDigits(cell) THEN "True" ELSE "False"

IsLeap(y) == (y % 4 = 0 /\ y % 100 # 0) \/ y % 400 = 0

DaysInMonth(y, m) ==
    IF m = 2 THEN (IF IsLeap(y) THEN 29 ELSE 28)
    ELSE IF m \in {4, 6, 9, 11} THEN 30 ELSE 31

\* pd.to_datetime(errors='coerce'), line 46, on the texts the raw tables
\* hold here (MM/DD/YYYY, or something that is no date): the calendar date,
\* or NaT for a missing value, a non-date and a day that does not exist
ToDatetime(cell) ==
    IF cell = NaN \/ Len(cell) # 10 THEN NaT
    ELSE IF ~ /\ cell[3] = "/" /\ cell[6] = "/"
              /\ \A i \in {1, 2, 4, 5, 7, 8, 9, 10} : cell[i] \in Digits
      THEN NaT
    ELSE LET m == 10 * DigitVal(cell[1]) + DigitVal(cell[2])
             d == 10 * DigitVal(cell[4]) + DigitVal(cell[5])
             y == 1000 * DigitVal(cell[7]) + 100 * DigitVal(cell[8])
                  + 10 * DigitVal(cell[9]) + DigitVal(cell[10])
         IN  IF m \in 1..12 /\ d \in 1..DaysInMonth(y, m)
               THEN [year |-> y, month |-> m, day |-> d]
               ELSE NaT

\* str.split(), line 52: the maximal runs of non-whitespace characters, in
\* order (cur is the run being read, acc the runs read so far)
RECURSIVE SplitFrom(_, _, _)
SplitFrom(s, cur, acc) ==
    IF s = <<>>
      THEN (IF cur = <<>> THEN acc ELSE Append(acc, cur))
    ELSE IF Head(s) \in Whitespace
      THEN SplitFrom(Tail(s), <<>>, IF cur = <<>> THEN acc ELSE Append(acc, cur))
    ELSE SplitFrom(Tail(s), Append(cur, Head(s)), acc)

\* .fillna('').str.split(), line 52
FillnaSplit(cell) == SplitFrom(IF cell = NaN THEN <<>> ELSE cell, <<>>, <<>>)

\* DataFrame.explode with every row of an empty list left out
RECURSIVE Explode_DropEmpty(_)
Explode_DropEmpty(data) ==
    IF data = <<>> THEN <<>>
    ELSE LET r == Head(data)
             toks == r.f[8]
         IN  [k \in 1..Len(toks) |-> [r EXCEPT !.f[8] = toks[k]]]
             \o Explode_DropEmpty(Tail(data))

\* DataFrame.explode('Violations'), line 53: one row per element of the
\* list, the index label and the other cells repeated; an empty list gives
\* one row holding NaN
RECURSIVE Explode(_)
Explode(data) ==
    IF data = <<>> THEN <<>>
    ELSE LET r == Head(data)
             toks == r.f[8]
         IN  (IF toks = <<>>
                THEN <<[r EXCEPT !.f[8] = NaN]>>
                ELSE [k \in 1..Len(toks) |-> [r EXCEPT !.f[8] = toks[k]]])
             \o Explode(Tail(data))

\* lines 39-40: data = df.iloc[:, :8], with the frame's RangeIndex
FirstEight(rows) ==
    [i \in 1..Len(rows) |-> [idx |-> i - 1, f |-> SubSeq(rows[i], 1, 8)]]

\* line 43, the mask data['Permit #'].str.match(r'^\d+$')
PermitMask(data) == [i \in 1..Len(data) |-> StrMatch(data[i].f[1])]

\* lines 43-55 once the mask is boolean: the rows the mask keeps, the dates
\* parsed, the rows without a date dropped, the violations split and
\* exploded, the rows whose violation is '' removed
Normalize(data) ==
    LET Kept(r) == StrMatch(r.f[1]) = "True"
        admitted == SelectSeq(data, Kept)
        parsed == [i \in 1..Len(admitted) |->
                     [admitted[i] EXCEPT !.f[4] = ToDatetime(@)]]
        HasDate(r) == r.f[4] # NaT
        dated == SelectSeq(parsed, HasDate)
        split == [i \in 1..Len(dated) |->
                    [dated[i] EXCEPT !.f[8] = FillnaSplit(@)]]
        exploded == Explode(split)
        NotEmpty(r) == r.f[8] # <<>>
    IN  SelectSeq(exploded, NotEmpty)

NoCsv == [exists |-> FALSE, columns |-> <<>>, records |-> <<>>]

\* transform, lines 29-59.  Fewer than 8 columns: sys.exit(1).  A missing
\* Permit # makes the mask hold NaN: indexing with it raises ValueError
\* ("Cannot mask with non-boolean array containing NA / NaN values") with the
\* object dtype, and counts as False with the pandas string dtype; the build
\* decides which.  Otherwise the cleaned CSV is written.
Transform ==
    /\ xfPc = "ready"
    /\ xfPc' = "done"
    /\ IF rawTable.ncols < Len(DEFAULT_HEADERS)
         THEN xfExit' = 1 /\ UNCHANGED cleaned
         ELSE LET data == FirstEight(rawTable.rows)
                  mask == PermitMask(data)
              IN  \E naRaises \in BOOLEAN :
                    IF naRaises /\ \E i \in 1..Len(mask) : mask[i] = "NaN"
                      THEN xfExit' = 1 /\ UNCHANGED cleaned
                      ELSE /\ xfExit' = 0
                           /\ cleaned' = [exists |-> TRUE,
                                          columns |-> DEFAULT_HEADERS,
                                          records |-> Normalize(data)]
    /\ UNCHANGED <<rawTable, acqVars, pipeVars, joinVars, exVars>>

\* ---- the raw tables given to transform ----
\* Permit # cells: missing, digits, digits and a newline, letters, a
\* leading blank
PermitCells ==
    {NaN, <<"7">>, <<"4", "2">>, <<"7", "\n">>, <<"A", "7">>, <<" ", "7">>}

\* Date cells: missing, a date (07/01/2024), a day that does not exist
\* (02/30/2024)
DateCells ==
    {NaN,
     <<"0", "7", "/", "0", "1", "/", "2", "0", "2", "4">>,
     <<"0", "2", "/", "3", "0", "/", "2", "0", "2", "4">>}

\* Violations cells: missing, blank, one code, two codes two blanks apart
ViolationCells == {NaN, <<" ">>, <<"c">>, <<"c", " ", " ", "d">>}

\* the columns extract_scores appends to every row: ScrapeDate, Page, Table,
\* SourceFile
ProvenanceCells ==
    <<<<"2", "0", "2", "5", "-", "0", "6", "-", "0", "1">>, <<"1">>, <<"1">>,
      <<"f", ".", "p", "d", "f">>>>

\* a raw row of n table cells followed by the provenance cells
MakeRow(p, d, v, n) ==
    SubSeq(<<p, <<"N">>, <<"A">>, d, <<"T">>, <<"F">>, <<"9", "5">>, v>>, 1, n)
    \o ProvenanceCells

\* widths of the extracted tables: 3 and 4 cells (7 and 8 columns with the
\* provenance) and the full 8
CellCounts == {3, 4, 8}

RawRows(n) ==
    IF n >= 8
      THEN {MakeRow(p, d, v, n) :
              p \in PermitCells, d \in DateCells, v \in ViolationCells}
    ELSE IF n >= 4
      THEN {MakeRow(p, d, NaN, n) : p \in PermitCells, d \in DateCells}
    ELSE {MakeRow(p, NaN, NaN, n) : p \in PermitCells}

IdleTransform ==
    /\ rawTable = [ncols |-> 0, rows |-> <<>>]
    /\ xfPc = "idle"
    /\ xfExit = 0
    /\ cleaned = NoCsv

(***************************************************************************)
(* JoinScoresViolations.py                                                 *)
(***************************************************************************)
\* rows of food_scores_cleaned.csv and of CodeViolations.csv in one behaviour
MaxScores == 2
MaxLookup == 2

\* DataFrame.merge as an inner join: the rows without a match are left out
RECURSIVE Merge_Inner(_, _)
Merge_Inner(left, right) ==
    IF left = <<>> THEN <<>>
    ELSE LET l == Head(left)
             Matches(e) == e.code = l[8]
             hits == SelectSeq(right, Matches)
         IN  [k \in 1..Len(hits) |->
                [f |-> l, code |-> hits[k].code, desc |-> hits[k].desc]]
             \o Merge_Inner(Tail(left), right)

\* df_scores.merge(df_codes, how='left', left_on='Violations',
\* right_on='Violation Code'), lines 10-15: the left rows in their order,
\* each once per lookup row with an equal key, in lookup order (a NaN key
\* matches a NaN key), or once with NaN lookup columns when there is none
RECURSIVE Merge(_, _)
Merge(left, right) ==
    IF left = <<>> THEN <<>>
    ELSE LET l == Head(left)
             Matches(e) == e.code = l[8]
             hits == SelectSeq(right, Matches)
         IN  (IF hits = <<>>
                THEN <<[f |-> l, code |-> NaN, desc |-> NaN]>>
                ELSE [k \in 1..Len(hits) |->
                        [f |-> l, code |-> hits[k].code, desc |-> hits[k].desc]])
             \o Merge(Tail(left), right)

\* main, lines 4-18
Join ==
    /\ joinPc = "ready"
    /\ joinPc' = "done"
    /\ joined' = [exists |-> TRUE, records |-> Merge(df_scores, df_codes)]
    /\ UNCHANGED <<df_scores, df_codes, acqVars, pipeVars, xfVars, exVars>>

\* ---- the tables given to the join ----
\* the violation codes of the cleaned rows and of the lookup: two codes, and
\* the missing value an empty cell reads as
JoinKeys == {NaN, <<"c">>, <<"d">>}

\* a row of food_scores_cleaned.csv
ScoreRow(p, v) ==
    <<p, <<"N">>, <<"A">>,
      <<"2", "0", "2", "4", "-", "0", "7", "-", "0", "1">>,
      <<"T">>, <<"F">>, <<"9", "5">>, v>>

ScoreRows == {ScoreRow(p, v) : p \in {<<"7">>, <<"4", "2">>}, v \in JoinKeys}

\* a row of CodeViolations.csv: 'Violation Code' and its description
LookupRows == {[code |-> c, desc |-> d] : c \in JoinKeys, d \in {<<"x">>, <<"y">>}}

IdleJoin ==
    /\ df_scores = <<>>
    /\ df_codes = <<>>
    /\ joinPc = "idle"
    /\ joined = [exists |-> FALSE, records |-> <<>>]

(***************************************************************************)
(* LexFoodScoresExtract.py, extract_scores                                 *)
(*                                                                         *)
(* A PDF is the sequence of its pages, a page the sequence of the tables   *)
(* camelot finds on it, a table the number of its rows; the one cell of    *)
(* row r of table t of page p reads <<p, t, r>>.                           *)
(***************************************************************************)
MaxPages == 2
MaxTables == 2
MaxExtractRuns == 2

TableSizes == {1, 2}
ScrapeDates == {"2025-06-01", "2025-06-02"}
\* pdf_path, as its components, and os.path.basename of it (line 53)
pdf_path == <<"downloads", "scores.pdf">>
basename(path) == IF path = <<>> THEN "" ELSE path[Len(path)]
SourceFile == basename(pdf_path)

HeaderLine ==
    [kind |-> "header", cells |-> <<>>, ScrapeDate |-> "ScrapeDate",
     Page |-> 0, Table |-> 0, SourceFile |-> "SourceFile"]

\* Batch, but every table is tagged as the first of its page
Batch_TableAlwaysOne(p, t, nrows) ==
    [r \in 1..nrows |->
       [kind |-> "row", cells |-> <<<<p, t, r>>>>, ScrapeDate |-> scrape_date,
        Page |-> p, Table |-> 1, SourceFile |-> SourceFile]]

\* lines 49-53: table.df with the four provenance columns set
Batch(p, t, nrows) ==
    [r \in 1..nrows |->
       [kind |-> "row", cells |-> <<<<p, t, r>>>>, ScrapeDate |-> scrape_date,
        Page |-> p, Table |-> t, SourceFile |-> SourceFile]]

\* lines 26-44: first_write from os.path.exists(output_csv); total_pages from
\* pdfplumber, 0 when the PDF cannot be opened; RuntimeError below one page
ExtractStart ==
    /\ exPc \in {"ready", "done"}
    /\ exRuns < MaxExtractRuns
    /\ exRuns' = exRuns + 1
    /\ \E d \in ScrapeDates : scrape_date' = d
    /\ first_write' = ~output_csv.exists
    /\ total_pages' = IF pdf.opens THEN Len(pdf.pages) ELSE 0
    /\ page_num' = 1
    /\ table_idx' = 1
    /\ tables' = <<>>
    /\ IF total_pages' < 1
         THEN /\ exPc' = "done" /\ exExit' = 1
              /\ artifactAfter' = Append(artifactAfter,
                    [ok |-> FALSE, date |-> scrape_date', file |-> output_csv])
         ELSE /\ exPc' = "page" /\ exExit' = 0
              /\ UNCHANGED artifactAfter
    /\ UNCHANGED <<pdf, output_csv, acqVars, pipeVars, xfVars, joinVars>>

\* line 46: tables = camelot.read_pdf(pdf_path, pages=str(page_num))
ExtractReadPage ==
    /\ exPc = "page"
    /\ tables' = pdf.pages[page_num]
    /\ table_idx' = 1
    /\ exPc' = "table"
    /\ UNCHANGED <<pdf, scrape_date, output_csv, first_write, total_pages,
                   page_num, exExit, exRuns, artifactAfter>>
    /\ UNCHANGED <<acqVars, pipeVars, xfVars, joinVars>>

\* lines 48-56: the table's rows are appended to output_csv (mode="a"),
\* after a header line when first_write holds
ExtractAppendTable ==
    /\ exPc = "table"
    /\ table_idx <= Len(tables)
    /\ output_csv' =
         [exists |-> TRUE,
          lines |-> output_csv.lines
                    \o (IF first_write THEN <<HeaderLine>> ELSE <<>>)
                    \o Batch(page_num, table_idx, tables[table_idx])]
    /\ first_write' = FALSE
    /\ table_idx' = table_idx + 1
    /\ UNCHANGED <<pdf, scrape_date, exPc, total_pages, page_num, tables,
                   exExit, exRuns, artifactAfter>>
    /\ UNCHANGED <<acqVars, pipeVars, xfVars, joinVars>>

\* ExtractNextPage, but a page without tables ends the loop
ExtractNextPage_StopAtEmptyPage ==
    /\ exPc = "table"
    /\ table_idx > Len(tables)
    /\ page_num' = page_num + 1
    /\ exPc' = IF page_num + 1 > total_pages \/ Len(tables) = 0
                 THEN "finish" ELSE "page"
    /\ UNCHANGED <<pdf, scrape_date, output_csv, first_write, total_pages,
                   tables, table_idx, exExit, exRuns, artifactAfter>>
    /\ UNCHANGED <<acqVars, pipeVars, xfVars, joinVars>>

\* line 44: the page's tables are done, the loop goes to the next page
ExtractNextPage ==
    /\ exPc = "table"
    /\ table_idx > Len(tables)
    /\ page_num' = page_num + 1
    /\ exPc' = IF page_num + 1 > total_pages THEN "finish" ELSE "page"
    /\ UNCHANGED <<pdf, scrape_date, output_csv, first_write, total_pages,
                   tables, table_idx, exExit, exRuns, artifactAfter>>
    /\ UNCHANGED <<acqVars, pipeVars, xfVars, joinVars>>

\* lines 57-58: all pages done, extract_scores returns
ExtractFinish ==
    /\ exPc = "finish"
    /\ exPc' = "done"
    /\ artifactAfter' = Append(artifactAfter,
          [ok |-> TRUE, date |-> scrape_date, file |-> output_csv])
    /\ UNCHANGED <<pdf, scrape_date, output_csv, first_write, total_pages,
                   page_num, tables, table_idx, exExit, exRuns>>
    /\ UNCHANGED <<acqVars, pipeVars, xfVars, joinVars>>

\* ---- the PDFs given to extract_scores ----
PageLayouts == SeqsUpTo(TableSizes, MaxTables)

Pdfs ==
    {[opens |-> FALSE, pages |-> <<>>]}
    \cup {[opens |-> TRUE, pages |-> ps] : ps \in SeqsUpTo(PageLayouts, MaxPages)}

IdleExtractLocals ==
    /\ scrape_date = "2025-06-01"
    /\ first_write = TRUE
    /\ total_pages = 0
    /\ page_num = 1
    /\ tables = <<>>
    /\ table_idx = 1
    /\ exExit = 0
    /\ exRuns = 0
    /\ artifactAfter = <<>>
    /\ output_csv = [exists |-> FALSE, lines |-> <<>>]

IdleExtract ==
    /\ pdf = [opens |-> FALSE, pages |-> <<>>]
    /\ exPc = "idle"
    /\ IdleExtractLocals

IdleAcquire ==
    /\ upstream = CHOOSE d \in Docs : TRUE
    /\ current = Absent
    /\ hist = [t \in 0..MaxTime |-> Absent]
    /\ tmp = Absent
    /\ now = 0
    /\ dlPc = "stopped"
    /\ force = FALSE
    /\ timestamp = 0
    /\ existing_md5 = 0
    /\ body = <<>>
    /\ dlTarget = "current"
    /\ outcome = "none"
    /\ exitCode = 0
    /\ dirBefore = [current |-> current, hist |-> hist]
    /\ runs = 0
    /\ nameHasUnderscore = FALSE
    /\ pipePc = "stopped"
    /\ pipeDownload = FALSE
    /\ stagesRun = <<>>
    /\ pipeExit = 0

(***************************************************************************)
(* Acquisition and orchestration as a state machine.                       *)
(***************************************************************************)
InitAcquire ==
    /\ upstream \in Docs
    /\ current \in {Absent} \cup {File(d, r) : d \in Docs, r \in BOOLEAN}
    /\ hist = [t \in 0..MaxTime |-> Absent]
    /\ tmp = Absent
    /\ now = 0
    /\ dlPc = "idle"
    /\ force = FALSE
    /\ timestamp = 0
    /\ existing_md5 = 0
    /\ body = <<>>
    /\ dlTarget = "current"
    /\ outcome = "none"
    /\ exitCode = 0
    /\ dirBefore = [current |-> current, hist |-> hist]
    /\ runs = 0
    /\ nameHasUnderscore \in BOOLEAN
    /\ pipePc = "idle"
    /\ pipeDownload = FALSE
    /\ stagesRun = <<>>
    /\ pipeExit = 0
    /\ IdleTransform
    /\ IdleJoin
    /\ IdleExtract

NextAcquire ==
    \/ StartRun
    \/ Md5Existing
    \/ DownloadOpen
    \/ DownloadBlock
    \/ DownloadDone
    \/ DownloadFail
    \/ Compare
    \/ Finalize
    \/ Kill
    \/ Publish
    \/ Tick
    \/ PipelineStart
    \/ PipelineAfterDownload
    \/ RunStage
    \/ PipelineArchive

SpecAcquire == InitAcquire /\ [][NextAcquire]_vars

(***************************************************************************)
(* The stages as state machines: each specification gives one stage its    *)
(* inputs and runs it, the other programs at rest.                         *)
(***************************************************************************)
InitTransform ==
    /\ \E n \in CellCounts, k \in 0..MaxRows :
         \E rs \in [1..k -> RawRows(n)] :
            rawTable = [ncols |-> n + 4, rows |-> rs]
    /\ xfPc = "ready"
    /\ xfExit = 0
    /\ cleaned = NoCsv
    /\ IdleAcquire
    /\ IdleJoin
    /\ IdleExtract

NextTransform == Transform

SpecTransform == InitTransform /\ [][NextTransform]_vars

InitJoin ==
    /\ df_scores \in SeqsUpTo(ScoreRows, MaxScores)
    /\ df_codes \in SeqsUpTo(LookupRows, MaxLookup)
    /\ joinPc = "ready"
    /\ joined = [exists |-> FALSE, records |-> <<>>]
    /\ IdleAcquire
    /\ IdleTransform
    /\ IdleExtract

NextJoin == Join

SpecJoin == InitJoin /\ [][NextJoin]_vars

InitExtract ==
    /\ pdf \in Pdfs
    /\ exPc = "ready"
    /\ IdleExtractLocals
    /\ IdleAcquire
    /\ IdleTransform
    /\ IdleJoin

NextExtract ==
    \/ ExtractStart
    \/ ExtractReadPage
    \/ ExtractAppendTable
    \/ ExtractNextPage
    \/ ExtractFinish

SpecExtract == InitExtract /\ [][NextExtract]_vars

(***************************************************************************)
(* Claims about extraction (SpecExtract).                                  *)
(***************************************************************************)
\* C4 (as claimed): every run of extract_scores that completes leaves the
\* raw-table artifact as the first completed run with the same scrape date
\* on the same document and output path left it (same lines, same order, one
\* header line).
C4_ExtractIdempotent ==
    \A i, j \in 1..Len(artifactAfter) :
        ( /\ i < j
          /\ artifactAfter[i].ok /\ artifactAfter[j].ok
          /\ artifactAfter[i].date = artifactAfter[j].date )
        => artifactAfter[j].file = artifactAfter[i].file

(***************************************************************************)
(* Claims about normalisation (SpecTransform).                             *)
(***************************************************************************)
\* one or more digits and nothing else
DigitOnly(cell) ==
    /\ cell # NaN
    /\ Len(cell) >= 1
    /\ \A i \in 1..Len(cell) : cell[i] \in Digits

\* where the whitespace-separated codes of a violations text start
CodeStarts(s) ==
    {i \in 1..Len(s) : s[i] \notin Whitespace /\ (i = 1 \/ s[i - 1] \in Whitespace)}

\* the number of whitespace-separated codes of a violations cell
CodeCount(cell) == IF cell = NaN THEN 0 ELSE Cardinality(CodeStarts(cell))

\* the k-th whitespace-separated code of a violations text
KthCode(s, k) ==
    LET start == CHOOSE i \in CodeStarts(s) :
                    Cardinality({j \in CodeStarts(s) : j < i}) = k - 1
        end == CHOOSE j \in start..Len(s) :
                    /\ \A m \in start..j : s[m] \notin Whitespace
                    /\ (j = Len(s) \/ s[j + 1] \in Whitespace)
    IN  SubSeq(s, start, end)

\* the normalized records that come from raw row i (index label i - 1)
RecordsOf(i) ==
    LET FromRow(r) == r.idx = i - 1
    IN  SelectSeq(cleaned.records, FromRow)

\* raw row i has a digit-only permitId and a date that parses
AdmittedRow(i) ==
    /\ DigitOnly(rawTable.rows[i][1])
    /\ ToDatetime(rawTable.rows[i][4]) # NaT

Max(a, b) == IF a >= b THEN a ELSE b

\* C5 (as claimed): every record of the normalized output comes from a raw
\* row whose permitId cell is one or more digits and nothing else.
C5_AdmissionStrict ==
    cleaned.exists =>
      \A k \in 1..Len(cleaned.records) :
          DigitOnly(rawTable.rows[cleaned.records[k].idx + 1][1])

C7_ZeroCodesDropped ==
    cleaned.exists =>
      /\ \A i \in 1..Len(rawTable.rows) :
           CodeCount(rawTable.rows[i][8]) = 0 => RecordsOf(i) = <<>>
      /\ \A k \in 1..Len(cleaned.records) :
           cleaned.records[k].f[8] \notin {NaN, <<>>}

\* C9 (as claimed): on a raw table of at least 8 columns transform ends with
\* exit status 0 and has written its output.
C9_RowFailuresAbsorbed ==
    (xfPc = "done" /\ rawTable.ncols >= 8) => (xfExit = 0 /\ cleaned.exists)

(***************************************************************************)
(* Claims about the join (SpecJoin).                                       *)
(***************************************************************************)
UniqueCodes ==
    \A i, j \in 1..Len(df_codes) : df_codes[i].code = df_codes[j].code => i = j

\* the lookup rows whose code is the violation code of cleaned row i
MatchesOf(i) == {j \in 1..Len(df_codes) : df_codes[j].code = df_scores[i][8]}

\* C8: when the lookup's codes are unique the joined output has one record
\* per normalized record, in the same order; a record without a matching
\* code has null lookup fields, a record with one carries that entry's code
\* and description.
C8_JoinTotal ==
    (joinPc = "done" /\ UniqueCodes) =>
      /\ Len(joined.records) = Len(df_scores)
      /\ \A i \in 1..Len(df_scores) :
           /\ joined.records[i].f = df_scores[i]
           /\ MatchesOf(i) = {} =>
                (joined.records[i].code = NaN /\ joined.records[i].desc = NaN)
           /\ \A j \in MatchesOf(i) :
                /\ joined.records[i].code = df_codes[j].code
                /\ joined.records[i].desc = df_codes[j].desc

\* C8 witness: two normalized records joined against a lookup with unique
\* codes, the first without a match, the second with one
C8_Witness ==
    /\ joinPc = "done" /\ UniqueCodes
    /\ Len(df_scores) = 2 /\ Len(df_codes) = 2
    /\ MatchesOf(1) = {} /\ MatchesOf(2) # {}
    /\ Len(joined.records) = 2
    /\ joined.records[1].desc = NaN

(***************************************************************************)
(* Claims about acquisition and the pipeline gate (SpecAcquire).           *)
(***************************************************************************)
\* the downloader has fetched a document in this run
Fetched == outcome \notin {"none", "no_link"} /\ body # <<>>

\* the run ended by itself (no transfer failure, no abort by the operator)
RanToEnd == dlPc = "done" /\ outcome \notin {"none", "no_link", "download_failed", "killed"}

\* C1: a run with force=false that finds a (readable) current file with the
\* fingerprint of the fetched document leaves the destination directory (the
\* current file and the set of historical copies) exactly as it was when the
\* run started, at every step of the run, and, when it runs to its end,
\* reports "unchanged" with exit status 0.
C1_UnchangedLeavesDirectory ==
    ( /\ Fetched
      /\ ~force
      /\ dirBefore.current.exists
      /\ dirBefore.current.readable
      /\ Md5Fold(0, body) = calculate_md5(dirBefore.current) )
    => /\ DestDir = dirBefore
       /\ RanToEnd => (outcome = "unchanged" /\ exitCode = 0)

\* C1 witness: a repeated acquisition (a run after one that stored a
\* historical copy) has ended "unchanged"
C1_Witness ==
    /\ dlPc = "done" /\ outcome = "unchanged" /\ ~force
    /\ runs >= 2
    /\ \E t \in 0..MaxTime : dirBefore.hist[t].exists

\* C2 (as claimed): the file under the canonical name is never a partially
\* written document, whatever the run is doing or however it ended, and a run
\* that replaced the current file has left a historical copy with its content.
C2_AtomicReplace ==
    /\ current.exists => current.bytes \in Docs
    /\ (dlPc = "done" /\ outcome = "changed")
         => hist[timestamp] = File(current.bytes, TRUE)

\* C3 (as claimed): while a pipeline run that invoked the downloader is under
\* way and the downloader reported the document unchanged, no downstream
\* stage (extract, transform, join) has been executed.
C3_UnchangedSkipsStages ==
    (pipeDownload /\ pipePc \notin {"idle", "done"} /\ outcome = "unchanged")
    => stagesRun = <<>>

\* C10 (as claimed): a run with force=false that found an unreadable file at
\* the canonical path, and was not cut short by a transfer failure or an
\* abort, ends with status 0 having replaced the current file by the fetched
\* document and written the historical copy.
C10_UnreadableTreatedAsDifferent ==
    ( /\ RanToEnd
      /\ ~force
      /\ dirBefore.current.exists
      /\ ~dirBefore.current.readable )
    => /\ exitCode = 0
       /\ outcome = "changed"
       /\ current.exists /\ current.bytes = body
       /\ hist[timestamp].exists /\ hist[timestamp].bytes = body

(***************************************************************************)
(* Claims about the column mapping of transform (SpecTransform).           *)
(***************************************************************************)
\* the cell columns of the extracted table: the columns of the raw CSV but
\* the four that extract_scores appended
RawCellColumns == rawTable.ncols - Len(ProvenanceCells)

\* the logical fields transform copies unchanged from the raw row
CopiedFields == {1, 2, 3, 5, 6, 7}

\* C11 (as claimed): once transform has run, an extracted table of fewer
\* than 8 cell columns has made it exit non-zero with no cleaned CSV written
\* (so no provenance column is ever bound to a logical field), and a table
\* of 8 cell columns or more, when a cleaned CSV is written, has its first 8
\* cell columns bound to DEFAULT_HEADERS in that order.
C11_PositionalMapping ==
    xfPc = "done" =>
        IF RawCellColumns < Len(DEFAULT_HEADERS)
          THEN xfExit = 1 /\ ~cleaned.exists
          ELSE cleaned.exists =>
                 /\ cleaned.columns = DEFAULT_HEADERS
                 /\ \A k \in 1..Len(cleaned.records) :
                      LET r == cleaned.records[k]
                      IN  \A c \in CopiedFields :
                            r.f[c] = rawTable.rows[r.idx + 1][c]

(***************************************************************************)
(* Claims about the pages and batches of extraction (SpecExtract).         *)
(***************************************************************************)
RECURSIVE SumSeq(_)
SumSeq(s) == IF s = <<>> THEN 0 ELSE Head(s) + SumSeq(Tail(s))

\* the lines output_csv held when the latest run began
RunBase ==
    IF exRuns <= 1 THEN 0 ELSE Len(artifactAfter[exRuns - 1].file.lines)

\* the row lines the latest run has appended, in file order
RunRows ==
    LET IsRow(l) == l.kind = "row"
    IN  SelectSeq(SubSeq(output_csv.lines, RunBase + 1,
                         Len(output_csv.lines)), IsRow)

RowsOfPage(p) == {i \in 1..Len(RunRows) : RunRows[i].Page = p}

\* C12: once extract_scores has been run, a PDF that opens with zero pages
\* has made it fail (exit 1) with output_csv never created; for a PDF with at
\* least one page the run raises no error, and when it has returned every
\* page has contributed as many rows as its tables hold, zero for a page
\* without tables, the pages after such a page included.
C12_NoPagesFatalEmptyPageSkipped ==
    (exRuns >= 1 /\ pdf.opens) =>
        IF Len(pdf.pages) = 0
          THEN /\ exPc = "done" /\ exExit = 1
               /\ ~output_csv.exists /\ output_csv.lines = <<>>
          ELSE /\ exExit = 0
               /\ exPc = "done" =>
                    /\ page_num = Len(pdf.pages) + 1
                    /\ \A p \in 1..Len(pdf.pages) :
                         Cardinality(RowsOfPage(p)) = SumSeq(pdf.pages[p])

\* a run has returned on a PDF whose first page has no table and whose
\* second page has one, the rows of the second page written
C12_Witness ==
    /\ exPc = "done" /\ exExit = 0 /\ exRuns = 1
    /\ pdf.opens /\ Len(pdf.pages) = 2
    /\ pdf.pages[1] = <<>> /\ pdf.pages[2] # <<>>
    /\ RowsOfPage(1) = {}
    /\ RowsOfPage(2) # {}

\* the batch a row line belongs to, and its row number in the table, read
\* from the cell the table gave it
BatchKey(l) == <<l.cells[1][1], l.cells[1][2]>>
RowNumber(l) == l.cells[1][3]

LexLess(a, b) == a[1] < b[1] \/ (a[1] = b[1] /\ a[2] < b[2])

\* every row line of the latest run carries its batch's page number, its
\* table's 1-based index on the page, the run's scrape date and the base
\* name of pdf_path
RowsTagged ==
    \A i \in 1..Len(RunRows) :
        LET l == RunRows[i]
        IN  /\ <<l.Page, l.Table>> = BatchKey(l)
            /\ l.Page \in 1..Len(pdf.pages)
            /\ l.Table \in 1..Len(pdf.pages[l.Page])
            /\ l.ScrapeDate = scrape_date
            /\ l.SourceFile = pdf_path[Len(pdf_path)]

\* consecutive row lines of the latest run are the next row of the same
\* batch, or the first row of a batch with a strictly greater (page, table)
BatchesIncreasing ==
    \A i \in 1..(Len(RunRows) - 1) :
        LET a == RunRows[i]
            b == RunRows[i + 1]
        IN  \/ /\ <<b.Page, b.Table>> = <<a.Page, a.Table>>
               /\ RowNumber(b) = RowNumber(a) + 1
            \/ /\ LexLess(<<a.Page, a.Table>>, <<b.Page, b.Table>>)
               /\ RowNumber(a) = pdf.pages[a.Page][a.Table]
               /\ RowNumber(b) = 1

\* a run that has returned has emitted every row of every table of every
\* page once
AllBatchesEmitted ==
    (exPc = "done" /\ exExit = 0 /\ exRuns >= 1) =>
        \A p \in 1..Len(pdf.pages) :
          \A t \in 1..Len(pdf.pages[p]) :
            \A n \in 1..pdf.pages[p][t] :
                Cardinality({i \in 1..Len(RunRows) :
                               RunRows[i].cells = <<<<p, t, n>>>>}) = 1

\* the loop's position: on a page of the document while reading, past the
\* last page once the loop has ended
PagePosition ==
    /\ exPc \in {"page", "table"} => page_num \in 1..total_pages
    /\ exPc = "finish" => page_num = total_pages + 1

\* a step reads page 1 first, reads a page when it comes to it, and leaves
\* a page only for the one after it: no page is read twice or passed over
PagesInTurn ==
    /\ (exPc # "page" /\ exPc' = "page") =>
          page_num' = (IF exPc = "table" THEN page_num + 1 ELSE 1)
    /\ (exPc = "page" /\ exPc' # "page") =>
          /\ exPc' = "table"
          /\ page_num' = page_num
          /\ tables' = pdf.pages[page_num]
    /\ (exPc = "table" /\ exPc' = "table") => page_num' = page_num
    /\ (exPc = "table" /\ exPc' # "table") => table_idx > Len(tables)

\* C13: within one run of extract_scores the batches are appended in
\* strictly increasing (page, table) order, the pages 1..total_pages are
\* read once each in turn, and every row of a batch carries the batch's page
\* number, its 1-based table index, the scrape date and the base name of
\* the source file.
C13_BatchesInOrderAndTagged ==
    /\ [](RowsTagged /\ BatchesIncreasing /\ AllBatchesEmitted
          /\ PagePosition)
    /\ [][PagesInTurn]_vars

\* a run has returned after appending two batches of the first page and one
\* of the second
C13_Witness ==
    /\ exPc = "done" /\ exExit = 0
    /\ Len(pdf.pages) = 2
    /\ Len(pdf.pages[1]) = 2 /\ Len(pdf.pages[2]) >= 1
    /\ \E i, j, k \in 1..Len(RunRows) :
         /\ i < j /\ j < k
         /\ <<RunRows[i].Page, RunRows[i].Table>> = <<1, 1>>
         /\ <<RunRows[j].Page, RunRows[j].Table>> = <<1, 2>>
         /\ <<RunRows[k].Page, RunRows[k].Table>> = <<2, 1>>

====
